---- MODULE Spec2Model ----
(***************************************************************************)
(* river/get_level.py: get_river_level(name, date, session) and its helper *)
(* _first_hit(url).  One call is modelled from entry to return/raise.  The *)
(* call blocks on at most three HTTP requests; the upstream service is the *)
(* environment and answers each request with any response of a bounded set.*)
(***************************************************************************)
EXTENDS Integers, Sequences, FiniteSets, TLC

\* ------------------------------------------------------------------ bounds
MaxRowLen == 2      \* longest first data row of a station-list response
MaxRows == 2        \* most data rows of a station-list response
MaxValRows == 2     \* most rows of the `data` array of a values response
DayLen == 1         \* sampling instants of the requested day: 0 .. DayLen-1

\* --------------------------------------------------------------- constants
FirstHitTimeout == 30
ValuesTimeout == 60

\* ------------------------------------------------------------ exceptions
ErrTimestamp == "ValueError: Pass a *date* (YYYY-MM-DD), not a full timestamp."
ErrNoMatch == "LookupError: No matching records returned by SEPA."
ErrRowMismatch == "LookupError: Malformed response from SEPA (row/header mismatch)."
ErrMalformedValues == "LookupError: Malformed response fetching values"
ErrNoValues == "LookupError: No level values found"
ErrRequest == "requests.RequestException"
ErrHTTP == "requests.HTTPError"
ErrJSON == "requests.JSONDecodeError"
ErrType == "TypeError"
ErrKey == "KeyError"
ErrFrame == "ValueError: columns passed, passed data had other columns"

\* Python's exception hierarchy: what `except LookupError` catches.
IsLookupError(e) ==
    e \in {ErrNoMatch, ErrRowMismatch, ErrMalformedValues, ErrNoValues, ErrKey}

\* ------------------------------------------------------------ the inputs
\* A string is a sequence of tokens.  A `date` argument is a str, a
\* datetime.date or a datetime.datetime; `iso` is the text of a str, or what
\* isoformat() gives for the two object kinds.
DayTok == "2024-01-01"
ClockTok == "00:00:00"
PlainDate == <<DayTok>>
IsoStamp == <<DayTok, "T", ClockTok>>
SpaceStamp == <<DayTok, " ", ClockTok>>

DateArgs ==
    { [type |-> "str", iso |-> PlainDate],
      [type |-> "str", iso |-> IsoStamp],
      [type |-> "str", iso |-> SpaceStamp],
      [type |-> "date", iso |-> PlainDate],
      [type |-> "datetime", iso |-> IsoStamp] }

NoSession == "None"
SessionArgs == {NoSession, "Session"}

DefaultParameter == "SG"
DefaultResolution == "15m.Cmd"

\* ------------------------------------------------- station-list responses
Null == [tag |-> "null", items |-> <<>>]
NoBody == [tag |-> "unbound", items |-> <<>>]
Dict == [tag |-> "dict", items |-> <<>>]
List(items) == [tag |-> "list", items |-> items]
NumEl == [tag |-> "num", cells |-> <<>>]
ListEl(cells) == [tag |-> "list", cells |-> cells]

StationNos == {"15018", "234150"}
OtherNo == "999"
Headers ==
    { <<>>, <<"station_no">>, <<"station_name">>, <<"station_no", "station_name">> }
StationRows == UNION { [1..n -> StationNos] : n \in 0..MaxRowLen }
MoreRows(h, n) == [i \in 1..n |-> ListEl([j \in 1..Len(h) |-> OtherNo])]

StationBodies ==
    {Null, Dict, List(<<>>)}
    \cup { List(<<e>>) : e \in {ListEl(h) : h \in Headers} \cup {NumEl} }
    \cup { List(<<NumEl, ListEl(r)>>) : r \in StationRows }
    \cup { List(<<ListEl(h), NumEl>>) : h \in Headers }
    \cup { List(<<ListEl(h), ListEl(r)>> \o MoreRows(h, n)) :
             h \in Headers, r \in StationRows, n \in 0..(MaxRows - 1) }

Transport == {"ok", "request_error", "http_error", "bad_json"}
StationResponses ==
    { [status |-> s, body |-> Null] : s \in Transport \ {"ok"} }
    \cup { [status |-> "ok", body |-> b] : b \in StationBodies }

\* ------------------------------------------------------ values responses
\* A timestamp cell is a local instant with a UTC offset, as in
\* "2024-01-01T00:15:00.000+01:00".
Offsets == {0, 1}
Cells == [local : 0..DayLen, off : Offsets]
Filler == [local |-> 0, off |-> 0]
Widths == {2, 3}
ValueRow(w, c) == [i \in 1..w |-> IF i = 1 THEN c ELSE Filler]
CellSeqs == UNION { [1..n -> Cells] : n \in 0..MaxValRows }
DataArrays == { [i \in 1..Len(cs) |-> ValueRow(w, cs[i])] : w \in Widths, cs \in CellSeqs }

ColumnStrings ==
    { <<"Timestamp", ",", "Value", ",", "Quality Code">>,
      <<"Timestamp", ",", " ", "Value">>,
      <<"Value", ",", "Quality Code">> }

ValueRec(keys, c, d) ==
    [tag |-> "dict", keys |-> keys,
     columns |-> IF "columns" \in keys THEN c ELSE <<>>,
     data |-> IF "data" \in keys THEN d ELSE <<>>]
NumRec == [tag |-> "num", keys |-> {}, columns |-> <<>>, data |-> <<>>]

ValueBodies ==
    {Null, Dict, List(<<>>), List(<<NumRec>>)}
    \cup { List(<<ValueRec(k, c, d)>>) :
             k \in SUBSET {"columns", "data"}, c \in ColumnStrings, d \in DataArrays }

ValueResponses ==
    { [status |-> s, body |-> Null] : s \in Transport \ {"ok"} }
    \cup { [status |-> "ok", body |-> b] : b \in ValueBodies }

\* ------------------------------------------------------------- the state
VARIABLES
    date,       \* the `date` argument
    session,    \* the `session` argument
    pc,         \* where the call is
    result,     \* "running", "returned", or the exception raised to the caller
    reqs,       \* the outbound requests issued so far, in order
    tries,      \* how each request of reqs that was answered ended
    data,       \* `data` of the latest _first_hit call, NoBody while unbound
    station,    \* the record _first_hit returned
    raw,        \* `raw`, the body of the values response, NoBody while unbound
    df          \* the table returned

vars == <<date, session, pc, result, reqs, tries, data, station, raw, df>>

NoRecord == [k \in {} |-> ""]
NoTable == [index |-> <<>>, columns |-> <<>>]

\* --------------------------------------------------------- pure helpers
\* Python truthiness of a decoded JSON body (`not data`, `not raw`).
Falsy(b) == b.tag = "null" \/ (b.tag = "list" /\ b.items = <<>>)

\* dict(zip(header, first_row)): a repeated key keeps its last value.
ZipDict(header, row) ==
    LET n == IF Len(header) < Len(row) THEN Len(header) ELSE Len(row)
        last(k) == CHOOSE i \in 1..n : header[i] = k /\ \A j \in 1..n : header[j] = k => j <= i
    IN [k \in {header[i] : i \in 1..n} |-> row[last(k)]]

\* the decoded body of a response; a failed request binds none
Body(resp) == IF resp.status = "ok" THEN resp.body ELSE NoBody

\* how a step ended: "returned", or the exception it raised
Ended(err) == IF err = "none" THEN "returned" ELSE err

Raise(e) == [err |-> e, rec |-> NoRecord]
Return(rec) == [err |-> "none", rec |-> rec]

\* header, first_row = data[0], data[1]
Header(d) == d.items[1]
\* (faulty variant: the last row instead of data[1])
FirstRowLast(d) == d.items[Len(d.items)]
FirstRow(d) == d.items[2]

\* _first_hit from the response on: raise_for_status, json, validation, zip.
FirstHit(resp) ==
    IF resp.status = "request_error" THEN Raise(ErrRequest)
    ELSE IF resp.status = "http_error" THEN Raise(ErrHTTP)
    ELSE IF resp.status = "bad_json" THEN Raise(ErrJSON)
    ELSE LET d == resp.body IN
         IF Falsy(d) \/ d.tag # "list" \/ Len(d.items) < 2 \/ Header(d).tag # "list"
         THEN Raise(ErrNoMatch)
         ELSE IF FirstRow(d).tag # "list" THEN Raise(ErrType)
         ELSE IF Len(FirstRow(d).cells) # Len(Header(d).cells) THEN Raise(ErrRowMismatch)
         ELSE Return(ZipDict(Header(d).cells, FirstRow(d).cells))

\* except LookupError: in get_river_level
\* (faulty variant: a bare except)
CaughtAll(e) == TRUE
Caught(e) == IsLookupError(e)

\* isoformat() of a datetime.date that is not a datetime.datetime
Normalise(d) == IF d.type = "date" THEN [type |-> "str", iso |-> d.iso] ELSE d

\* "T" in date
ContainsT(s) == \E i \in DOMAIN s : s[i] = "T"

\* sess = session or requests
\* (faulty variant: the session is ignored)
SessDefault(s) == "requests"
Sess(s) == IF s = NoSession THEN "requests" ELSE s

\* _first_hit calls requests.get, whatever the session
FirstHitTransport(s) == "requests"

\* (faulty variant: the fallback repeats the station_name filter)
StationRequestSameFilter(filter, s) ==
    [request |-> "getStationList", filter |-> "station_name", via |-> FirstHitTransport(s),
     timeout |-> FirstHitTimeout, ts_path |-> <<>>, from |-> <<>>, to |-> <<>>]
StationRequest(filter, s) ==
    [request |-> "getStationList", filter |-> filter, via |-> FirstHitTransport(s),
     timeout |-> FirstHitTimeout, ts_path |-> <<>>, from |-> <<>>, to |-> <<>>]

\* ts_path, from_arg, to_arg and the GET of the values query
ValuesRequest(sta_no, d, s) ==
    [request |-> "getTimeseriesValues", filter |-> "ts_path", via |-> Sess(s),
     timeout |-> ValuesTimeout,
     ts_path |-> <<"1", sta_no, DefaultParameter, DefaultResolution>>,
     from |-> d, to |-> d \o <<"T", "23:59:59">>]

\* str.split(",")
RECURSIVE SplitFrom(_, _, _)
SplitFrom(s, i, cur) ==
    IF i > Len(s) THEN <<cur>>
    ELSE IF s[i] = "," THEN <<cur>> \o SplitFrom(s, i + 1, <<>>)
    ELSE SplitFrom(s, i + 1, Append(cur, s[i]))
Split(s) == SplitFrom(s, 1, <<>>)

\* str.strip()
RECURSIVE Strip(_)
Strip(s) ==
    IF s # <<>> /\ Head(s) = " " THEN Strip(Tail(s))
    ELSE IF s # <<>> /\ s[Len(s)] = " " THEN Strip(SubSeq(s, 1, Len(s) - 1))
    ELSE s

\* cols = [c.strip() for c in rec["columns"].split(",")]
Cols(columns) == [i \in 1..Len(Split(columns)) |-> Strip(Split(columns)[i])]

\* pd.to_datetime(..., utc=True) of one cell
\* (faulty variant: the UTC offset is dropped)
ToUTCNaive(c) == c.local
ToUTC(c) == c.local - c.off

\* df.empty
\* (faulty variant: only the columns are tested)
DfEmptyColumnsOnly(d, cols) == Len(cols) = 0
DfEmpty(d, cols) == Len(d) = 0 \/ Len(cols) = 0

\* df["Timestamp"] = pd.to_datetime(...); df.set_index("Timestamp")
SetIndex(d, cols) ==
    LET p == CHOOSE i \in DOMAIN cols : cols[i] = <<"Timestamp">>
    IN [index |-> [i \in DOMAIN d |-> ToUTC(d[i][p])],
        columns |-> SubSeq(cols, 1, p - 1) \o SubSeq(cols, p + 1, Len(cols))]

Fail(e) == [err |-> e, df |-> NoTable]

\* get_river_level from the values response on.  pd.DataFrame(data, columns)
\* raises ValueError when the rows are not as wide as `columns` is long (the
\* rows of a modelled response all have one width).
Decode(resp) ==
    IF resp.status = "request_error" THEN Fail(ErrRequest)
    ELSE IF resp.status = "http_error" THEN Fail(ErrHTTP)
    ELSE IF resp.status = "bad_json" THEN Fail(ErrJSON)
    ELSE LET r == resp.body IN
         IF Falsy(r) \/ r.tag # "list" \/ r.items[1].tag # "dict"
            \/ "data" \notin r.items[1].keys
         THEN Fail(ErrMalformedValues)
         ELSE LET rec == r.items[1] IN
              IF "columns" \notin rec.keys THEN Fail(ErrKey)
              ELSE LET cols == Cols(rec.columns) IN
                   IF \E i \in DOMAIN rec.data : Len(rec.data[i]) # Len(cols)
                   THEN Fail(ErrFrame)
                   ELSE IF DfEmpty(rec.data, cols) THEN Fail(ErrNoValues)
                   ELSE IF ~ \E i \in DOMAIN cols : cols[i] = <<"Timestamp">>
                   THEN Fail(ErrKey)
                   ELSE [err |-> "none", df |-> SetIndex(rec.data, cols)]

\* ------------------------------------------------------------ behaviour
Init ==
    /\ date \in DateArgs
    /\ session \in SessionArgs
    /\ pc = "validate"
    /\ result = "running"
    /\ reqs = <<>>
    /\ tries = <<>>
    /\ data = NoBody
    /\ station = NoRecord
    /\ raw = NoBody
    /\ df = NoTable

\* the date check at the head of get_river_level
Validate ==
    /\ pc = "validate"
    /\ LET d == Normalise(date) IN
         IF d.type # "str"
         THEN /\ pc' = "done" /\ result' = ErrType /\ date' = d
         ELSE IF ContainsT(d.iso)
         THEN /\ pc' = "done" /\ result' = ErrTimestamp /\ date' = d
         ELSE /\ pc' = "station_query" /\ result' = result /\ date' = d
    /\ UNCHANGED <<session, reqs, tries, data, station, raw, df>>

\* station = _first_hit(qry_station) with the station_name filter: the GET
QueryStationName ==
    /\ pc = "station_query"
    /\ reqs' = Append(reqs, StationRequest("station_name", session))
    /\ pc' = "station_name"
    /\ UNCHANGED <<date, session, result, tries, data, station, raw, df>>

\* the station_name response, through _first_hit and the try/except
StationNameResponse ==
    /\ pc = "station_name"
    /\ \E resp \in StationResponses :
         LET hit == FirstHit(resp) IN
           /\ data' = Body(resp)
           /\ tries' = Append(tries, Ended(hit.err))
           /\ station' = hit.rec
           /\ IF hit.err = "none" THEN /\ pc' = "values_query" /\ result' = result
              ELSE IF Caught(hit.err) THEN /\ pc' = "river_query" /\ result' = result
              ELSE /\ pc' = "done" /\ result' = hit.err
    /\ UNCHANGED <<date, session, reqs, raw, df>>

\* the except branch: _first_hit(qry_station) with the river_name filter
QueryRiverName ==
    /\ pc = "river_query"
    /\ reqs' = Append(reqs, StationRequest("river_name", session))
    /\ pc' = "river_name"
    /\ UNCHANGED <<date, session, result, tries, data, station, raw, df>>

\* (faulty variant: a failed fallback re-raises the first failure)
RiverNameResponseReraisesFirst ==
    /\ pc = "river_name"
    /\ \E resp \in StationResponses :
         LET hit == FirstHit(resp) IN
           /\ data' = Body(resp)
           /\ tries' = Append(tries, Ended(hit.err))
           /\ station' = hit.rec
           /\ IF hit.err = "none" THEN /\ pc' = "values_query" /\ result' = result
              ELSE /\ pc' = "done" /\ result' = tries[1]
    /\ UNCHANGED <<date, session, reqs, raw, df>>

\* the river_name response, through _first_hit; nothing catches its failure
RiverNameResponse ==
    /\ pc = "river_name"
    /\ \E resp \in StationResponses :
         LET hit == FirstHit(resp) IN
           /\ data' = Body(resp)
           /\ tries' = Append(tries, Ended(hit.err))
           /\ station' = hit.rec
           /\ IF hit.err = "none" THEN /\ pc' = "values_query" /\ result' = result
              ELSE /\ pc' = "done" /\ result' = hit.err
    /\ UNCHANGED <<date, session, reqs, raw, df>>

\* sta_no = station["station_no"], the values query and its GET
QueryValues ==
    /\ pc = "values_query"
    /\ IF "station_no" \notin DOMAIN station
       THEN /\ pc' = "done" /\ result' = ErrKey /\ reqs' = reqs
       ELSE /\ reqs' = Append(reqs, ValuesRequest(station["station_no"], date.iso, session))
            /\ pc' = "values"
            /\ result' = result
    /\ UNCHANGED <<date, session, tries, data, station, raw, df>>

\* the values response: validation, DataFrame, empty check, index
ValuesResponse ==
    /\ pc = "values"
    /\ \E resp \in ValueResponses :
         LET out == Decode(resp) IN
           /\ raw' = Body(resp)
           /\ tries' = Append(tries, Ended(out.err))
           /\ df' = out.df
           /\ result' = Ended(out.err)
    /\ pc' = "done"
    /\ UNCHANGED <<date, session, reqs, data, station>>

Next ==
    \/ Validate
    \/ QueryStationName
    \/ StationNameResponse
    \/ QueryRiverName
    \/ RiverNameResponse
    \/ QueryValues
    \/ ValuesResponse

Spec == Init /\ [][Next]_vars

\* ------------------------------------------------- shapes the claims name
HasTimeOfDay(d) == d.type = "datetime" \/ \E i \in DOMAIN d.iso : d.iso[i] = ClockTok

\* no hit: empty body, non-sequence, fewer than two elements, no header row
NoHitShape(d) ==
    \/ d.tag \in {"null", "dict"}
    \/ d.tag = "list" /\ (Len(d.items) < 2 \/ d.items[1].tag # "list")

BothRows(d) ==
    d.tag = "list" /\ Len(d.items) >= 2 /\ d.items[1].tag = "list" /\ d.items[2].tag = "list"

\* a header row and a first data row of another length
MismatchedRow(d) == BothRows(d) /\ Len(d.items[1].cells) # Len(d.items[2].cells)

\* a header row naming station_no once and a first data row aligned to it
WellFormedStation(d) ==
    /\ BothRows(d)
    /\ Len(d.items[1].cells) = Len(d.items[2].cells)
    /\ Cardinality({i \in DOMAIN d.items[1].cells : d.items[1].cells[i] = "station_no"}) = 1

StationNoOf(d) ==
    d.items[2].cells[CHOOSE i \in DOMAIN d.items[1].cells : d.items[1].cells[i] = "station_no"]

\* the columns/data contract of the values response
ValidValues(r) ==
    /\ r.tag = "list" /\ Len(r.items) >= 1 /\ r.items[1].tag = "dict"
    /\ {"columns", "data"} \subseteq r.items[1].keys

Failed(t) == t # "returned"
TransportFailure(e) == e \in {ErrRequest, ErrHTTP}
Filters == [i \in DOMAIN reqs |-> reqs[i].filter]
NoValuesRequest == \A i \in DOMAIN reqs : reqs[i].request # "getTimeseriesValues"
Sorted(ix) == \A i, j \in DOMAIN ix : i < j => ix[i] <= ix[j]
InDay(ix) == \A i \in DOMAIN ix : ix[i] \in 0..(DayLen - 1)

\* ------------------------------------------------------------------ claims

\* C1: every `date` that carries a time of day is rejected with the
\* invalid-argument error (ValueError) before any request is issued.
C1_TimestampRejectedBeforeAnyRequest ==
    /\ HasTimeOfDay(date) => reqs = <<>>
    /\ (HasTimeOfDay(date) /\ pc = "done") => result = ErrTimestamp

\* C2: when the station_name query yields no hit and the river_name query a
\* well-formed record, resolution succeeds and the ts_path of the values
\* request carries the station_no of the first data row of that response.
C2_FallbackResolvesFirstRow ==
    /\ pc = "river_query" => (tries[1] = ErrNoMatch <=> NoHitShape(data))
    /\ (Len(tries) >= 2 /\ tries[1] = ErrNoMatch /\ WellFormedStation(data))
         => /\ reqs[2].filter = "river_name"
            /\ tries[2] = "returned"
            /\ pc \in {"values_query", "values", "done"}
            /\ pc # "values_query"
                 => /\ Len(reqs) = 3
                    /\ reqs[3].request = "getTimeseriesValues"
                    /\ reqs[3].ts_path =
                         <<"1", StationNoOf(data), DefaultParameter, DefaultResolution>>

C2_Witness ==
    /\ pc = "done" /\ result = "returned"
    /\ Len(tries) = 3 /\ tries[1] = ErrNoMatch /\ reqs[2].filter = "river_name"
    /\ Len(data.items) > 2

\* C3: a station-list response with a header row and a first data row of
\* another length makes the call fail with the row/header mismatch error,
\* for the station_name query as for the river_name query.
C3_MismatchedRowFailsTheCall ==
    (pc = "done" /\ ((tries # <<>> /\ tries[1] = ErrRowMismatch) \/ MismatchedRow(data)))
        => result = ErrRowMismatch

\* C4: a returned table has at least one row, and a structurally valid
\* values response with an empty `data` array fails with "no level values".
C4_NeverAnEmptyTable ==
    /\ result = "returned" => Len(df.index) >= 1
    /\ (pc = "done" /\ ValidValues(raw) /\ raw.items[1].data = <<>>)
         => (result = ErrNoValues /\ df = NoTable)

C4_Witness ==
    pc = "done" /\ ValidValues(raw) /\ raw.items[1].data = <<>> /\ result = ErrNoValues

\* C5: a values response that violates the columns/data contract (empty,
\* not a sequence, first element not a record, `data` or `columns` missing)
\* fails with the malformed-values error and returns no table.
C5_ContractViolationIsMalformed ==
    (pc = "done" /\ raw # NoBody /\ ~ ValidValues(raw))
        => (result = ErrMalformedValues /\ df = NoTable)

\* C6 as claimed: when both station-list attempts fail, the call fails with
\* "no matching records" and issues no values request.
C6_BothFailMeansNoMatch ==
    (Len(tries) >= 2 /\ Failed(tries[1]) /\ Failed(tries[2]))
        => (pc = "done" /\ result = ErrNoMatch /\ NoValuesRequest)

\* C6 amended: when both station-list attempts fail, the call fails with the
\* failure of the river_name attempt ("no matching records" when that
\* attempt yields no hit, the mismatch error when its first data row does
\* not fit the header) and issues no values request.
C6_BothFailRaisesSecondFailure ==
    (Len(tries) >= 2 /\ Failed(tries[1]) /\ Failed(tries[2]))
        => /\ pc = "done"
           /\ reqs[2].filter = "river_name"
           /\ result = tries[2]
           /\ NoHitShape(data) => result = ErrNoMatch
           /\ MismatchedRow(data) => result = ErrRowMismatch
           /\ NoValuesRequest

C6_Witness ==
    /\ pc = "done" /\ Len(tries) = 2
    /\ Failed(tries[1]) /\ NoHitShape(data) /\ result = ErrNoMatch

\* C7: the requests of a call are issued one after another, at most three:
\* one station_name query first, at most one river_name query and only
\* after the station_name query failed, at most one values query and only
\* after a station-list query returned a record; no filter is repeated.
C7_AtMostThreeSequentialRequests ==
    /\ Filters \in { <<>>, <<"station_name">>, <<"station_name", "river_name">>,
                     <<"station_name", "ts_path">>,
                     <<"station_name", "river_name", "ts_path">> }
    /\ Len(tries) <= Len(reqs) /\ Len(reqs) <= Len(tries) + 1
    /\ (pc = "done" /\ reqs = <<>>) => result \in {ErrTimestamp, ErrType}
    /\ pc \notin {"validate", "station_query", "done"} => reqs # <<>>
    /\ \A i \in DOMAIN reqs :
         /\ reqs[i].filter = "river_name" => Failed(tries[1])
         /\ reqs[i].filter = "ts_path" => tries[i - 1] = "returned"

C7_Witness == pc = "done" /\ Len(reqs) = 3 /\ Len(tries) = 3

\* C8: a transport or HTTP failure of any request is raised to the caller
\* as it is, triggers no river_name fallback, and is the last request.
C8_TransportFailureSurfaces ==
    \A i \in DOMAIN tries :
        TransportFailure(tries[i])
            => (pc = "done" /\ result = tries[i] /\ Len(reqs) = i /\ Len(tries) = i)

C8_Witness ==
    pc = "done" /\ Len(tries) = 1 /\ TransportFailure(tries[1]) /\ result = tries[1]

\* C9 as claimed: the index of a returned table is non-decreasing and lies
\* within the requested day, whatever the values response.
C9_IndexSortedWithinDay ==
    result = "returned" => (Sorted(df.index) /\ InDay(df.index))

\* C9 amended: the index of a returned table holds the UTC instant of each
\* row of the values response, one per row and in the order of the
\* response, unsorted and unfiltered; the request asks for the window from
\* `date` to `date`T23:59:59.
C9_IndexIsTheResponseInOrder ==
    result = "returned"
        => /\ Len(df.index) = Len(raw.items[1].data)
           /\ \A i \in DOMAIN df.index :
                df.index[i] = raw.items[1].data[i][1].local - raw.items[1].data[i][1].off
           /\ reqs[Len(reqs)].request = "getTimeseriesValues"
           /\ reqs[Len(reqs)].from = date.iso
           /\ reqs[Len(reqs)].to = date.iso \o <<"T", "23:59:59">>

C9_Witness ==
    /\ result = "returned"
    /\ ~ Sorted(df.index)
    /\ \E i \in DOMAIN df.index : raw.items[1].data[i][1].off # 0

\* C10: with a session supplied the values request goes through it, and
\* the station-list requests always go through the module-level transport.
C10_SessionCarriesOnlyTheValuesRequest ==
    \A i \in DOMAIN reqs :
        /\ reqs[i].request = "getStationList" => reqs[i].via = "requests"
        /\ (reqs[i].request = "getTimeseriesValues" /\ session # NoSession)
             => reqs[i].via = session

C10_Witness ==
    /\ session # NoSession /\ Len(reqs) = 3
    /\ reqs[2].request = "getStationList" /\ reqs[3].via = session
====
